---- MODULE Spec2Model ----
(***************************************************************************)
(* EZNotes front-end (src/src/App.tsx, the App component that starts at    *)
(* line 503): file selection, the microphone recording session and the     *)
(* submission to the note-generation webhook, as a state machine.          *)
(*                                                                         *)
(* One variable per useState / useRef of the component, plus the browser   *)
(* objects the handlers create (capture streams, MediaRecorders, interval  *)
(* timers, animation-frame loops, timeouts, promises in flight).  Every    *)
(* event handler is one action; an async handler is one action per         *)
(* segment between awaits.  The event loop runs one task at a time, so     *)
(* actions interleave but never overlap.                                   *)
(***************************************************************************)
EXTENDS Integers, Sequences, FiniteSets, TLC

\* ---------------------------------------------------------------- bounds
\* capture streams that getUserMedia hands out in one run
MaxStreams == 2
\* recordingTime is counted up to this many seconds
MaxTime == 2
\* startRecording calls waiting for their timeout or for getUserMedia
MaxPending == 2
\* the normalized loudness is quantized into 0..MaxLevel
MaxLevel == 1

\* ------------------------------------------------------ optional values
\* null | T  is a sequence of length 0 or 1
None == << >>
Some(x) == << x >>

\* an id (setInterval handle, requestAnimationFrame handle, object
\* identity) is a positive integer; 0 is the null / falsy reference
NoId == 0

\* ------------------------------------------------------------- strings
\* a string is a tuple of one-character strings
StartsWith(s, pre) ==
    /\ Len(s) >= Len(pre)
    /\ SubSeq(s, 1, Len(pre)) = pre

EndsWith(s, suf) ==
    /\ Len(s) >= Len(suf)
    /\ SubSeq(s, Len(s) - Len(suf) + 1, Len(s)) = suf

DotTxt == << ".", "t", "x", "t" >>
DotMp3 == << ".", "m", "p", "3" >>
DotM4a == << ".", "m", "4", "a" >>
DotWav == << ".", "w", "a", "v" >>
TextPlain == << "t", "e", "x", "t", "/", "p", "l", "a", "i", "n" >>
AudioSlash == << "a", "u", "d", "i", "o", "/" >>
AudioWav == AudioSlash \o << "w", "a", "v" >>

\* the files a user can pick or drop: [name, type]
Files ==
    { [name |-> << "a" >> \o DotTxt, type |-> TextPlain],
      [name |-> << "b" >> \o DotMp3, type |-> << >>],
      [name |-> << "c" >>, type |-> AudioSlash \o << "x" >>],
      [name |-> << "d", ".", "m", "d" >>, type |-> TextPlain],
      [name |-> << "e", ".", "p", "d", "f" >>,
       type |-> << "a", "p", "p", "/", "p", "d", "f" >>],
      [name |-> << "t", "x", "t" >>, type |-> << >>] }

\* ------------------------------------------------------ error messages
MicError == "Could not access microphone. Please allow microphone access."
FileTypeError == "Please select a .txt file or audio file (.mp3, .m4a, .wav)"
UploadError == "Failed to process file. Please try again."

\* ------------------------------------------------------------ variables
VARIABLES
    file, isUploading, output, error, outputSelection,
    isRecording, isPaused, recordedBlob, recordingTime, isPlaying,
    showRecorder, audioLevel,
    isCancellingRef, mediaRecorderRef, streamRef, intervalRef,
    animationRef, audioContextRef, analyserRef,
    fileInputValue, audioSrc,
    streams, recorders, timers, loops,
    startTimeouts, gumPending, resetTimeouts, fetches, download, last

\* React state of the upload side
uploadState == << file, isUploading, output, error, outputSelection >>
\* React state of the recorder
recState == << isRecording, isPaused, recordedBlob, recordingTime, isPlaying,
               showRecorder >>
\* refs of the recorder other than the metering ones
recRefs == << isCancellingRef, mediaRecorderRef, streamRef, intervalRef >>
\* level metering: the state, the three refs and the running frame loops
meter == << audioLevel, animationRef, audioContextRef, analyserRef, loops >>
\* DOM elements reached through refs
dom == << fileInputValue, audioSrc >>
\* browser objects and tasks in flight; download is the download attribute
\* of the last anchor that downloadFile clicked
env == << streams, recorders, timers, startTimeouts, gumPending,
          resetTimeouts, fetches >>

vars == << uploadState, recState, recRefs, meter, dom, env, download, last >>


\* ------------------------------------------------------- initial state
Init ==
    /\ file = None
    /\ isUploading = FALSE
    /\ output = None
    /\ error = None
    /\ outputSelection = [soapNote |-> TRUE, patientSummary |-> TRUE]
    /\ isRecording = FALSE
    /\ isPaused = FALSE
    /\ recordedBlob = None
    /\ recordingTime = 0
    /\ isPlaying = FALSE
    /\ showRecorder = FALSE
    /\ audioLevel = 0
    /\ isCancellingRef = FALSE
    /\ mediaRecorderRef = NoId
    /\ streamRef = NoId
    /\ intervalRef = NoId
    /\ animationRef = NoId
    /\ audioContextRef = NoId
    /\ analyserRef = NoId
    /\ fileInputValue = << >>
    /\ audioSrc = None
    /\ streams = << >>
    /\ recorders = << >>
    /\ timers = {}
    /\ loops = {}
    /\ startTimeouts = 0
    /\ gumPending = 0
    /\ resetTimeouts = 0
    /\ fetches = << >>
    /\ download = None
    /\ last = "init"

\* ----------------------------------------------------- browser objects
\* setInterval / requestAnimationFrame return a handle that no live timer
\* and no reference holds; handles are only ever compared for equality, so
\* the smallest free positive integer stands for "a fresh handle"
FreshId(used) ==
    CHOOSE i \in 1..(Cardinality(used) + 1) :
        /\ i \notin used
        /\ \A j \in 1..(i - 1) : j \in used

\* a capture stream is the number of times its tracks were stopped;
\* it is live (the microphone is open) until the first stop
StreamLive(s) == streams[s] = 0

\* track.stop() on every track of stream s
StopTracks(strs, s) == [strs EXCEPT ![s] = @ + 1]

\* MediaRecorder.stop(): the recorder becomes inactive and a task is queued
\* that fires dataavailable and then stop.  stoppedBy is history: which
\* handler made the call
RecorderStop(recs, r, by) ==
    [recs EXCEPT ![r] = [@ EXCEPT !.state = "inactive", !.stopQueued = TRUE,
                                  !.stoppedBy = by]]

RecorderActive(r) == recorders[r].state # "inactive"

\* the object URL that onstop creates for a blob
ObjectURL(blob) == Some(blob)

\* ----------------------------------------------------- level metering
Levels == 0..MaxLevel

\* startAudioLevelMonitoring: a new AudioContext and analyser, the refs
\* overwritten, and updateAudioLevel called once: it sets the level and
\* schedules itself for the next animation frame
startAudioLevelMonitoring ==
    LET l == FreshId(loops \cup {animationRef}) IN
    /\ audioContextRef' = l
    /\ analyserRef' = l
    /\ \E lvl \in Levels : audioLevel' = lvl
    /\ animationRef' = l
    /\ loops' = loops \cup {l}

stopAudioLevelMonitoring ==
    /\ loops' = IF animationRef # NoId THEN loops \ {animationRef} ELSE loops
    /\ animationRef' = NoId
    /\ audioContextRef' = NoId
    /\ analyserRef' = NoId
    /\ audioLevel' = 0

\* the animation frame of loop l: updateAudioLevel runs again
updateAudioLevel(l) ==
    /\ l \in loops
    /\ \E lvl \in Levels : audioLevel' = lvl
    /\ animationRef' = l
    /\ UNCHANGED << audioContextRef, analyserRef, loops >>
    /\ UNCHANGED << uploadState, recState, recRefs, dom, env >>
    /\ UNCHANGED download
    /\ last' = "frame"

\* the setInterval callback of timer t: setRecordingTime(prev => prev + 1)
tick(t) ==
    /\ t \in timers
    /\ recordingTime < MaxTime
    /\ recordingTime' = recordingTime + 1
    /\ UNCHANGED << isRecording, isPaused, recordedBlob, isPlaying,
                    showRecorder >>
    /\ UNCHANGED << uploadState, recRefs, meter, dom, env >>
    /\ UNCHANGED download
    /\ last' = "tick"

\* clearInterval(intervalRef.current) when the ref is truthy; the ref keeps
\* the stale handle
ClearInterval(ts) == IF intervalRef # NoId THEN ts \ {intervalRef} ELSE ts

\* ------------------------------------------------------ startRecording
\* the call up to the await of getUserMedia
startRecording ==
    /\ gumPending' = gumPending + 1
    /\ UNCHANGED << streams, recorders, timers, resetTimeouts, fetches >>
    /\ UNCHANGED << uploadState, recState, recRefs, meter, dom >>

\* getUserMedia resolved: the rest of the try block
\* startRecording without setRecordingTime(0)
startRecordingGranted_keepsTime ==
    /\ gumPending > 0
    /\ Len(streams) < MaxStreams
    /\ LET s == Len(streams) + 1
           t == FreshId(timers \cup {intervalRef})
       IN  /\ streams' = Append(streams, 0)
           /\ streamRef' = s
           /\ recorders' = Append(recorders,
                  [state |-> "recording", chunks |-> 0, stopQueued |-> FALSE,
                   stoppedBy |-> "none"])
           /\ mediaRecorderRef' = s
           /\ startAudioLevelMonitoring
           /\ isRecording' = TRUE
           /\ UNCHANGED recordingTime
           /\ intervalRef' = t
           /\ timers' = timers \cup {t}
    /\ gumPending' = gumPending - 1
    /\ UNCHANGED << isPaused, recordedBlob, isPlaying, showRecorder >>
    /\ UNCHANGED << isCancellingRef, startTimeouts, resetTimeouts, fetches >>
    /\ UNCHANGED << uploadState, dom >>
    /\ UNCHANGED download
    /\ last' = "granted"

startRecordingGranted ==
    /\ gumPending > 0
    /\ Len(streams) < MaxStreams
    /\ LET s == Len(streams) + 1
           t == FreshId(timers \cup {intervalRef})
       IN  /\ streams' = Append(streams, 0)
           /\ streamRef' = s
           /\ recorders' = Append(recorders,
                  [state |-> "recording", chunks |-> 0, stopQueued |-> FALSE,
                   stoppedBy |-> "none"])
           /\ mediaRecorderRef' = s
           /\ startAudioLevelMonitoring
           /\ isRecording' = TRUE
           /\ recordingTime' = 0
           /\ intervalRef' = t
           /\ timers' = timers \cup {t}
    /\ gumPending' = gumPending - 1
    /\ UNCHANGED << isPaused, recordedBlob, isPlaying, showRecorder >>
    /\ UNCHANGED << isCancellingRef, startTimeouts, resetTimeouts, fetches >>
    /\ UNCHANGED << uploadState, dom >>
    /\ UNCHANGED download
    /\ last' = "granted"

\* getUserMedia rejected: the catch block
\* a catch block that leaves the session marked as recording
startRecordingDenied_entersRecording ==
    /\ gumPending > 0
    /\ gumPending' = gumPending - 1
    /\ error' = Some(MicError)
    /\ UNCHANGED << file, isUploading, output, outputSelection >>
    /\ UNCHANGED << streams, recorders, timers, startTimeouts, resetTimeouts,
                    fetches >>
    /\ isRecording' = TRUE
    /\ UNCHANGED << isPaused, recordedBlob, recordingTime, isPlaying,
                    showRecorder >>
    /\ UNCHANGED << recRefs, meter, dom >>
    /\ UNCHANGED download
    /\ last' = "denied"

startRecordingDenied ==
    /\ gumPending > 0
    /\ gumPending' = gumPending - 1
    /\ error' = Some(MicError)
    /\ UNCHANGED << file, isUploading, output, outputSelection >>
    /\ UNCHANGED << streams, recorders, timers, startTimeouts, resetTimeouts,
                    fetches >>
    /\ UNCHANGED << recState, recRefs, meter, dom >>
    /\ UNCHANGED download
    /\ last' = "denied"

\* mediaRecorder.onstop of recorder r, preceded in the same task by the
\* dataavailable event, which pushes the recorded data when its size is > 0
onstop(r, size) ==
    /\ r \in 1..Len(recorders)
    /\ recorders[r].stopQueued
    /\  LET chunks == recorders[r].chunks + (IF size > 0 THEN 1 ELSE 0)
            blob == [rec |-> r, chunks |-> chunks]
        IN  /\ recorders' = [recorders EXCEPT
                   ![r] = [@ EXCEPT !.chunks = chunks, !.stopQueued = FALSE]]
            /\ IF ~isCancellingRef
                   THEN /\ recordedBlob' = Some(blob)
                        /\ audioSrc' = ObjectURL(blob)
                   ELSE UNCHANGED << recordedBlob, audioSrc >>
    /\ streams' = StopTracks(streams, r)
    /\ resetTimeouts' = IF isCancellingRef THEN resetTimeouts + 1
                                            ELSE resetTimeouts
    /\ UNCHANGED << isRecording, isPaused, recordingTime, isPlaying,
                    showRecorder >>
    /\ UNCHANGED << timers, startTimeouts, gumPending, fetches >>
    /\ UNCHANGED << uploadState, recRefs, meter, fileInputValue >>
    /\ UNCHANGED download
    /\ last' = "onstop"

\* the setTimeout of onstop: isCancellingRef.current = false
resetCancelling ==
    /\ resetTimeouts > 0
    /\ resetTimeouts' = resetTimeouts - 1
    /\ isCancellingRef' = FALSE
    /\ UNCHANGED << mediaRecorderRef, streamRef, intervalRef >>
    /\ UNCHANGED << streams, recorders, timers, startTimeouts, gumPending,
                    fetches >>
    /\ UNCHANGED << uploadState, recState, meter, dom >>
    /\ UNCHANGED download
    /\ last' = "reset-cancelling"


\* ------------------------------------------- pause / resume / stop / cancel
\* MediaRecorder.pause(), resume() and stop() throw InvalidStateError on an
\* inactive recorder, which ends the handler at that call
pauseRecording ==
    IF mediaRecorderRef # NoId /\ isRecording /\ ~isPaused
           /\ RecorderActive(mediaRecorderRef)
    THEN /\ recorders' = [recorders EXCEPT ![mediaRecorderRef] =
                [@ EXCEPT !.state = IF @ = "recording" THEN "paused" ELSE @]]
         /\ isPaused' = TRUE
         /\ timers' = ClearInterval(timers)
         /\ stopAudioLevelMonitoring
         /\ UNCHANGED << isRecording, recordedBlob, recordingTime, isPlaying,
                         showRecorder >>
         /\ UNCHANGED << streams, startTimeouts, gumPending, resetTimeouts,
                         fetches >>
         /\ UNCHANGED << uploadState, recRefs, dom >>
    ELSE UNCHANGED << uploadState, recState, recRefs, meter, dom, env >>

\* resumeRecording whose guard does not test isPaused
resumeRecording_notPaused ==
    IF mediaRecorderRef # NoId /\ isRecording
           /\ RecorderActive(mediaRecorderRef)
    THEN /\ recorders' = [recorders EXCEPT ![mediaRecorderRef] =
                [@ EXCEPT !.state = IF @ = "paused" THEN "recording" ELSE @]]
         /\ isPaused' = FALSE
         /\ LET t == FreshId(timers \cup {intervalRef})
            IN  /\ intervalRef' = t
                /\ timers' = timers \cup {t}
         /\ IF streamRef # NoId
                THEN startAudioLevelMonitoring
                ELSE UNCHANGED meter
         /\ UNCHANGED << isRecording, recordedBlob, recordingTime, isPlaying,
                         showRecorder >>
         /\ UNCHANGED << isCancellingRef, mediaRecorderRef, streamRef >>
         /\ UNCHANGED << streams, startTimeouts, gumPending, resetTimeouts,
                         fetches >>
         /\ UNCHANGED << uploadState, dom >>
    ELSE UNCHANGED << uploadState, recState, recRefs, meter, dom, env >>

resumeRecording ==
    IF mediaRecorderRef # NoId /\ isRecording /\ isPaused
           /\ RecorderActive(mediaRecorderRef)
    THEN /\ recorders' = [recorders EXCEPT ![mediaRecorderRef] =
                [@ EXCEPT !.state = IF @ = "paused" THEN "recording" ELSE @]]
         /\ isPaused' = FALSE
         /\ LET t == FreshId(timers \cup {intervalRef})
            IN  /\ intervalRef' = t
                /\ timers' = timers \cup {t}
         /\ IF streamRef # NoId
                THEN startAudioLevelMonitoring
                ELSE UNCHANGED meter
         /\ UNCHANGED << isRecording, recordedBlob, recordingTime, isPlaying,
                         showRecorder >>
         /\ UNCHANGED << isCancellingRef, mediaRecorderRef, streamRef >>
         /\ UNCHANGED << streams, startTimeouts, gumPending, resetTimeouts,
                         fetches >>
         /\ UNCHANGED << uploadState, dom >>
    ELSE UNCHANGED << uploadState, recState, recRefs, meter, dom, env >>

stopRecording ==
    IF mediaRecorderRef # NoId /\ (isRecording \/ isPaused)
           /\ RecorderActive(mediaRecorderRef)
    THEN /\ recorders' = RecorderStop(recorders, mediaRecorderRef, "stop")
         /\ isRecording' = FALSE
         /\ isPaused' = FALSE
         /\ timers' = ClearInterval(timers)
         /\ stopAudioLevelMonitoring
         /\ UNCHANGED << recordedBlob, recordingTime, isPlaying,
                         showRecorder >>
         /\ UNCHANGED << streams, startTimeouts, gumPending, resetTimeouts,
                         fetches >>
         /\ UNCHANGED << uploadState, recRefs, dom >>
    ELSE UNCHANGED << uploadState, recState, recRefs, meter, dom, env >>

\* cancelRecording without setRecordingTime(0)
cancelRecording_keepsTime ==
    /\ isCancellingRef' = TRUE
    /\ IF mediaRecorderRef # NoId /\ (isRecording \/ isPaused)
              /\ ~RecorderActive(mediaRecorderRef)
       THEN \* stop() threw: nothing after it runs
            /\ UNCHANGED << mediaRecorderRef, streamRef, intervalRef >>
            /\ UNCHANGED << uploadState, recState, meter, dom, env >>
       ELSE /\ LET stopped ==
                     IF mediaRecorderRef # NoId /\ (isRecording \/ isPaused)
                     THEN RecorderStop(recorders, mediaRecorderRef, "cancel")
                     ELSE recorders
               IN  recorders' = stopped
            /\ isRecording' = FALSE
            /\ isPaused' = FALSE
            /\ UNCHANGED recordingTime
            /\ recordedBlob' = None
            /\ isPlaying' = FALSE
            /\ timers' = ClearInterval(timers)
            /\ IF streamRef # NoId
                   THEN /\ streams' = StopTracks(streams, streamRef)
                        /\ streamRef' = NoId
                   ELSE UNCHANGED << streams, streamRef >>
            /\ stopAudioLevelMonitoring
            /\ audioSrc' = None
            /\ UNCHANGED << mediaRecorderRef, intervalRef >>
            /\ UNCHANGED << showRecorder, fileInputValue >>
            /\ UNCHANGED << startTimeouts, gumPending, resetTimeouts,
                            fetches >>
            /\ UNCHANGED uploadState

cancelRecording ==
    /\ isCancellingRef' = TRUE
    /\ IF mediaRecorderRef # NoId /\ (isRecording \/ isPaused)
              /\ ~RecorderActive(mediaRecorderRef)
       THEN \* stop() threw: nothing after it runs
            /\ UNCHANGED << mediaRecorderRef, streamRef, intervalRef >>
            /\ UNCHANGED << uploadState, recState, meter, dom, env >>
       ELSE /\ LET stopped ==
                     IF mediaRecorderRef # NoId /\ (isRecording \/ isPaused)
                     THEN RecorderStop(recorders, mediaRecorderRef, "cancel")
                     ELSE recorders
               IN  recorders' = stopped
            /\ isRecording' = FALSE
            /\ isPaused' = FALSE
            /\ recordingTime' = 0
            /\ recordedBlob' = None
            /\ isPlaying' = FALSE
            /\ timers' = ClearInterval(timers)
            /\ IF streamRef # NoId
                   THEN /\ streams' = StopTracks(streams, streamRef)
                        /\ streamRef' = NoId
                   ELSE UNCHANGED << streams, streamRef >>
            /\ stopAudioLevelMonitoring
            /\ audioSrc' = None
            /\ UNCHANGED << mediaRecorderRef, intervalRef >>
            /\ UNCHANGED << showRecorder, fileInputValue >>
            /\ UNCHANGED << startTimeouts, gumPending, resetTimeouts,
                            fetches >>
            /\ UNCHANGED uploadState

\* --------------------------------------------- the finished recording
playRecording ==
    IF recordedBlob # None
    THEN /\ isPlaying' = ~isPlaying
         /\ UNCHANGED << isRecording, isPaused, recordedBlob, recordingTime,
                         showRecorder >>
         /\ UNCHANGED << uploadState, recRefs, meter, dom, env >>
    ELSE UNCHANGED << uploadState, recState, recRefs, meter, dom, env >>

\* generateRecordingFilename: recording_<date>_<time>.wav
RecordingFilename ==
    << "r", "e", "c" >> \o DotWav

\* new File([recordedBlob], generateRecordingFilename(), {type: "audio/wav"})
RecordingFile(blob) ==
    [name |-> RecordingFilename, type |-> AudioWav, data |-> blob]

\* useRecording that leaves the error message alone
useRecording_keepsError ==
    IF recordedBlob # None
    THEN /\ file' = Some(RecordingFile(recordedBlob[1]))
         /\ showRecorder' = FALSE
         /\ UNCHANGED << isUploading, output, outputSelection, error >>
         /\ UNCHANGED << isRecording, isPaused, recordedBlob, recordingTime,
                         isPlaying >>
         /\ UNCHANGED << recRefs, meter, dom, env >>
    ELSE UNCHANGED << uploadState, recState, recRefs, meter, dom, env >>

useRecording ==
    IF recordedBlob # None
    THEN /\ file' = Some(RecordingFile(recordedBlob[1]))
         /\ showRecorder' = FALSE
         /\ error' = None
         /\ UNCHANGED << isUploading, output, outputSelection >>
         /\ UNCHANGED << isRecording, isPaused, recordedBlob, recordingTime,
                         isPlaying >>
         /\ UNCHANGED << recRefs, meter, dom, env >>
    ELSE UNCHANGED << uploadState, recState, recRefs, meter, dom, env >>

\* clearRecording without setRecordingTime(0)
clearRecording_keepsTime ==
    /\ recordedBlob' = None
    /\ UNCHANGED recordingTime
    /\ isPlaying' = FALSE
    /\ isPaused' = FALSE
    /\ isCancellingRef' = FALSE
    /\ stopAudioLevelMonitoring
    /\ audioSrc' = None
    /\ UNCHANGED << isRecording, showRecorder, fileInputValue >>
    /\ UNCHANGED << mediaRecorderRef, streamRef, intervalRef >>
    /\ UNCHANGED << uploadState, env >>

clearRecording ==
    /\ recordedBlob' = None
    /\ recordingTime' = 0
    /\ isPlaying' = FALSE
    /\ isPaused' = FALSE
    /\ isCancellingRef' = FALSE
    /\ stopAudioLevelMonitoring
    /\ audioSrc' = None
    /\ UNCHANGED << isRecording, showRecorder, fileInputValue >>
    /\ UNCHANGED << mediaRecorderRef, streamRef, intervalRef >>
    /\ UNCHANGED << uploadState, env >>


\* ------------------------------------------------------ file selection
isTextFile(f) == f.type = TextPlain \/ EndsWith(f.name, DotTxt)

\* isAudioFile without the .m4a extension
isAudioFile_noM4a(f) ==
    \/ StartsWith(f.type, AudioSlash)
    \/ EndsWith(f.name, DotMp3)
    \/ EndsWith(f.name, DotWav)

isAudioFile(f) ==
    \/ StartsWith(f.type, AudioSlash)
    \/ EndsWith(f.name, DotMp3)
    \/ EndsWith(f.name, DotM4a)
    \/ EndsWith(f.name, DotWav)

Accepted(f) == isTextFile(f) \/ isAudioFile(f)

\* handleFileSelect without the setFile(null) of the else branch
handleFileSelect_keepsFile(f) ==
    /\ IF Accepted(f)
           THEN /\ file' = Some(f)
                /\ error' = None
           ELSE /\ error' = Some(FileTypeError)
                /\ UNCHANGED file
    /\ UNCHANGED << isUploading, output, outputSelection >>
    /\ UNCHANGED << recState, recRefs, meter, audioSrc, env >>

\* handleFileSelect that also closes the recorder panel, as useRecording does
handleFileSelect_hidesRecorder(f) ==
    /\ IF Accepted(f)
           THEN /\ file' = Some(f)
                /\ error' = None
           ELSE /\ error' = Some(FileTypeError)
                /\ file' = None
    /\ showRecorder' = FALSE
    /\ UNCHANGED << isUploading, output, outputSelection >>
    /\ UNCHANGED << isRecording, isPaused, recordedBlob, recordingTime,
                    isPlaying >>
    /\ UNCHANGED << recRefs, meter, audioSrc, env >>

handleFileSelect(f) ==
    /\ IF Accepted(f)
           THEN /\ file' = Some(f)
                /\ error' = None
           ELSE /\ error' = Some(FileTypeError)
                /\ file' = None
    /\ UNCHANGED << isUploading, output, outputSelection >>
    /\ UNCHANGED << recState, recRefs, meter, audioSrc, env >>

\* ---------------------------------------------------------- submission
\* the response of the webhook.  A content type is a tuple of its parts; a
\* JSON body is null or an object whose four known fields are undefined,
\* the empty string or a text
ApplicationJson == "application/json"
ContentTypes ==
    { None, Some(<< ApplicationJson >>),
      Some(<< ApplicationJson, "; charset=utf-8" >>),
      Some(<< "text/plain" >>) }

Includes(ct, part) == \E i \in 1..Len(ct) : ct[i] = part

FieldNames ==
    { "soap_note_text", "patient_summary_text", "soapNote", "patientSummary" }
Undefined == << "undefined" >>
EmptyString == << >>
Text(f) == << "text", f >>
JsonObjects == [FieldNames -> {Undefined, EmptyString, << "text" >>}]
Field(o, f) == IF o[f] = << "text" >> THEN Text(f) ELSE o[f]
Truthy(v) == v # Undefined /\ v # EmptyString

NoFields == [f \in FieldNames |-> Undefined]
AllFields == [f \in FieldNames |-> << "text" >>]
JsonContentTypes ==
    { ct \in ContentTypes : ct # None /\ Includes(ct[1], ApplicationJson) }

\* json: what response.json() gives: a rejection ("invalid"), null, a
\* number, string, boolean or array ("scalar": every known field reads as
\* undefined), or the object in body
Responses ==
    { [kind |-> "network-error"], [kind |-> "bad-status"] }
    \cup { [kind |-> "ok", contentType |-> ct, json |-> j, body |-> NoFields] :
              ct \in ContentTypes, j \in {"invalid", "null", "scalar"} }
    \cup { [kind |-> "ok", contentType |-> ct, json |-> "object", body |-> b] :
              ct \in JsonContentTypes, b \in JsonObjects }
    \cup { [kind |-> "ok", contentType |-> ct, json |-> "object", body |-> b] :
              ct \in ContentTypes \ JsonContentTypes,
              b \in {NoFields, AllFields} }

\* a JSON response has a pair when both of its fields are non-empty texts
HasPair(resp, a, b) ==
    /\ resp.json = "object"
    /\ Truthy(Field(resp.body, a))
    /\ Truthy(Field(resp.body, b))

\* what kind of answer a response is, as the history variable records it
ResponseClass(resp) ==
    IF resp.kind # "ok" THEN resp.kind
    ELSE IF resp.contentType = None
            \/ ~Includes(resp.contentType[1], ApplicationJson) THEN "not-json"
    ELSE IF resp.json # "object" THEN resp.json
    ELSE LET new == HasPair(resp, "soap_note_text", "patient_summary_text")
             legacy == HasPair(resp, "soapNote", "patientSummary")
         IN  IF new /\ legacy THEN "both-pairs"
             ELSE IF new THEN "new-pair"
             ELSE IF legacy THEN "legacy-pair"
             ELSE "no-pair"

\* the canned pair, built from the name of the submitted file
mockResponse(name) ==
    [soapNote |-> << "SOAP Note - " >> \o name \o << "SUBJECTIVE: ..." >>,
     patientSummary |-> << "Your Dental Visit Summary ..." >>]

\* UploadResult that tests the legacy pair before the new one
UploadResult_legacyFirst(resp, name) ==
    IF resp.kind # "ok" THEN None
    ELSE IF resp.contentType = None
            \/ ~Includes(resp.contentType[1], ApplicationJson) THEN None
    ELSE IF resp.json = "invalid" THEN None
    ELSE IF resp.json = "null" THEN None
    ELSE LET o == resp.body IN
         IF Truthy(Field(o, "soapNote"))
               /\ Truthy(Field(o, "patientSummary"))
         THEN Some([soapNote |-> Field(o, "soapNote"),
                    patientSummary |-> Field(o, "patientSummary")])
         ELSE IF Truthy(Field(o, "soap_note_text"))
               /\ Truthy(Field(o, "patient_summary_text"))
         THEN Some([soapNote |-> Field(o, "soap_note_text"),
                    patientSummary |-> Field(o, "patient_summary_text")])
         ELSE Some(mockResponse(name))

\* UploadResult whose legacy branch takes the summary of the new convention
UploadResult_mixedPair(resp, name) ==
    IF resp.kind # "ok" THEN None
    ELSE IF resp.contentType = None
            \/ ~Includes(resp.contentType[1], ApplicationJson) THEN None
    ELSE IF resp.json = "invalid" THEN None
    ELSE IF resp.json = "null" THEN None
    ELSE LET o == resp.body IN
         IF Truthy(Field(o, "soap_note_text"))
               /\ Truthy(Field(o, "patient_summary_text"))
         THEN Some([soapNote |-> Field(o, "soap_note_text"),
                    patientSummary |-> Field(o, "patient_summary_text")])
         ELSE IF Truthy(Field(o, "soapNote"))
               /\ Truthy(Field(o, "patientSummary"))
         THEN Some([soapNote |-> Field(o, "soapNote"),
                    patientSummary |-> Field(o, "patient_summary_text")])
         ELSE Some(mockResponse(name))

\* UploadResult without the content-type check
UploadResult_anyContentType(resp, name) ==
    IF resp.kind # "ok" THEN None
    ELSE IF resp.json = "invalid" THEN None
    ELSE IF resp.json = "null" THEN None
    ELSE LET o == resp.body IN
         IF Truthy(Field(o, "soap_note_text"))
               /\ Truthy(Field(o, "patient_summary_text"))
         THEN Some([soapNote |-> Field(o, "soap_note_text"),
                    patientSummary |-> Field(o, "patient_summary_text")])
         ELSE IF Truthy(Field(o, "soapNote"))
               /\ Truthy(Field(o, "patientSummary"))
         THEN Some([soapNote |-> Field(o, "soapNote"),
                    patientSummary |-> Field(o, "patientSummary")])
         ELSE Some(mockResponse(name))

\* what the try block of handleUpload does with a settled response: None
\* when it throws, else the value it gives to setOutput.  Reading a
\* property of null throws a TypeError.
UploadResult(resp, name) ==
    IF resp.kind # "ok" THEN None
    ELSE IF resp.contentType = None
            \/ ~Includes(resp.contentType[1], ApplicationJson) THEN None
    ELSE IF resp.json = "invalid" THEN None
    ELSE IF resp.json = "null" THEN None
    ELSE LET o == resp.body IN
         IF Truthy(Field(o, "soap_note_text"))
               /\ Truthy(Field(o, "patient_summary_text"))
         THEN Some([soapNote |-> Field(o, "soap_note_text"),
                    patientSummary |-> Field(o, "patient_summary_text")])
         ELSE IF Truthy(Field(o, "soapNote"))
               /\ Truthy(Field(o, "patientSummary"))
         THEN Some([soapNote |-> Field(o, "soapNote"),
                    patientSummary |-> Field(o, "patientSummary")])
         ELSE Some(mockResponse(name))

\* handleUpload up to the await of fetch
handleUpload ==
    IF file = None
    THEN UNCHANGED << uploadState, recState, recRefs, meter, dom, env >>
    ELSE /\ isUploading' = TRUE
         /\ error' = None
         /\ fetches' = Append(fetches, file[1].name)
         /\ UNCHANGED << file, output, outputSelection >>
         /\ UNCHANGED << streams, recorders, timers, startTimeouts,
                         gumPending, resetTimeouts >>
         /\ UNCHANGED << recState, recRefs, meter, dom >>

\* the fetch settles with resp: the rest of the try block, catch, finally
handleUploadSettled(resp) ==
    /\ fetches # << >>
    /\ LET res == UploadResult(resp, Head(fetches)) IN
        /\ IF res = None
               THEN /\ error' = Some(UploadError)
                    /\ UNCHANGED output
               ELSE /\ output' = res
                    /\ UNCHANGED error
        /\ UNCHANGED download
        /\ last' = ResponseClass(resp)
    /\ isUploading' = FALSE
    /\ fetches' = Tail(fetches)
    /\ UNCHANGED << file, outputSelection >>
    /\ UNCHANGED << streams, recorders, timers, startTimeouts, gumPending,
                    resetTimeouts >>
    /\ UNCHANGED << recState, recRefs, meter, dom >>

\* ------------------------------------------------ downloading a note
Digits == << "0", "1", "2", "3", "4", "5", "6", "7", "8", "9" >>

\* the decimal digits of n, padded with zeros to width w
RECURSIVE Pad(_, _)
Pad(n, w) ==
    IF w = 0 THEN << >>
    ELSE Pad(n \div 10, w - 1) \o << Digits[(n % 10) + 1] >>

\* the UTC dates new Date() gives in the runs; toISOString writes the years
\* 0 to 9999 with four digits
Dates ==
    { [year |-> 2025, month |-> 1, day |-> 5],
      [year |-> 1999, month |-> 12, day |-> 31],
      [year |-> 2030, month |-> 10, day |-> 9] }

\* new Date().toISOString().split("T")[0]
timestamp(date) ==
    Pad(date.year, 4) \o << "-" >> \o Pad(date.month, 2) \o << "-" >>
        \o Pad(date.day, 2)

\* the regular expression \.[^/.]+$ matches name from position i on
MatchesAt(name, i) ==
    /\ name[i] = "."
    /\ i < Len(name)
    /\ \A j \in (i + 1)..Len(name) : name[j] \notin {"/", "."}

\* name.replace(/\.[^/.]+$/, ""): the leftmost match is removed
ReplaceExtension(name) ==
    IF \E i \in 1..Len(name) : MatchesAt(name, i)
    THEN LET i == CHOOSE k \in 1..Len(name) :
                      /\ MatchesAt(name, k)
                      /\ \A m \in 1..(k - 1) : ~MatchesAt(name, m)
         IN  SubSeq(name, 1, i - 1)
    ELSE name

PatientVisit == << "p", "a", "t", "i", "e", "n", "t", "-", "v", "i", "s", "i", "t" >>

\* originalName with everything from the first dot on removed
originalName_fromFirstDot ==
    IF file # None
    THEN LET name == file[1].name IN
         IF \E i \in 1..Len(name) : name[i] = "."
         THEN SubSeq(name, 1,
                  (CHOOSE k \in 1..Len(name) :
                      name[k] = "." /\ \A m \in 1..(k - 1) : name[m] # ".") - 1)
         ELSE name
    ELSE PatientVisit

originalName ==
    IF file # None THEN ReplaceExtension(file[1].name) ELSE PatientVisit

\* `${originalName}_${type}_${timestamp}.txt`
filename(type, date) ==
    originalName \o << "_" >> \o type \o << "_" >> \o timestamp(date) \o DotTxt

downloadFile(type, date) ==
    /\ download' = Some(filename(type, date))
    /\ UNCHANGED << uploadState, recState, recRefs, meter, dom, env >>

\* ------------------------------------------- "Generate Another Note"
\* the reset without setRecordingTime(0)
generateAnother_keepsTime ==
    /\ file' = None
    /\ output' = None
    /\ error' = None
    /\ outputSelection' = [soapNote |-> TRUE, patientSummary |-> TRUE]
    /\ showRecorder' = FALSE
    /\ recordedBlob' = None
    /\ UNCHANGED recordingTime
    /\ isPlaying' = FALSE
    /\ isRecording' = FALSE
    /\ isPaused' = FALSE
    /\ isCancellingRef' = FALSE
    /\ stopAudioLevelMonitoring
    /\ fileInputValue' = << >>
    /\ audioSrc' = None
    /\ UNCHANGED << isUploading, mediaRecorderRef, streamRef, intervalRef >>
    /\ UNCHANGED env

generateAnother ==
    /\ file' = None
    /\ output' = None
    /\ error' = None
    /\ outputSelection' = [soapNote |-> TRUE, patientSummary |-> TRUE]
    /\ showRecorder' = FALSE
    /\ recordedBlob' = None
    /\ recordingTime' = 0
    /\ isPlaying' = FALSE
    /\ isRecording' = FALSE
    /\ isPaused' = FALSE
    /\ isCancellingRef' = FALSE
    /\ stopAudioLevelMonitoring
    /\ fileInputValue' = << >>
    /\ audioSrc' = None
    /\ UNCHANGED << isUploading, mediaRecorderRef, streamRef, intervalRef >>
    /\ UNCHANGED env


\* -------------------------------------------------------- what is shown
\* the conditions under which the JSX renders (and enables) each control
InitialStartEnabled == ~showRecorder /\ ~(isUploading \/ output # None)
SecondaryStartShown == showRecorder /\ ~isRecording /\ recordedBlob = None
RecordingPanelShown == showRecorder /\ isRecording
StoppedPanelShown == showRecorder /\ recordedBlob # None /\ ~isRecording
CheckboxEnabled == ~(output # None \/ isUploading)
\* the Generate button not disabled while a submission is in progress
GenerateEnabled_whileUploading ==
    /\ file # None
    /\ outputSelection.soapNote \/ outputSelection.patientSummary

GenerateEnabled ==
    /\ file # None
    /\ ~isUploading
    /\ outputSelection.soapNote \/ outputSelection.patientSummary
GenerateAnotherShown == output # None

\* ------------------------------------------------------- user actions
ClickInitialStart ==
    /\ InitialStartEnabled
    /\ startTimeouts + gumPending < MaxPending
    /\ showRecorder' = TRUE
    /\ startTimeouts' = startTimeouts + 1
    /\ UNCHANGED << isRecording, isPaused, recordedBlob, recordingTime,
                    isPlaying >>
    /\ UNCHANGED << streams, recorders, timers, gumPending, resetTimeouts,
                    fetches >>
    /\ UNCHANGED << uploadState, recRefs, meter, dom >>
    /\ UNCHANGED download
    /\ last' = "click-start"

\* setTimeout(startRecording, 100) fires
StartTimeout ==
    /\ startTimeouts > 0
    /\ startTimeouts' = startTimeouts - 1
    /\ gumPending' = gumPending + 1
    /\ UNCHANGED << streams, recorders, timers, resetTimeouts, fetches >>
    /\ UNCHANGED << uploadState, recState, recRefs, meter, dom >>
    /\ UNCHANGED download
    /\ last' = "start-timeout"

ClickSecondaryStart ==
    /\ SecondaryStartShown
    /\ startTimeouts + gumPending < MaxPending
    /\ startRecording
    /\ UNCHANGED startTimeouts
    /\ UNCHANGED download
    /\ last' = "click-start-2"

ClickPause ==
    /\ RecordingPanelShown /\ ~isPaused
    /\ pauseRecording
    /\ UNCHANGED download
    /\ last' = "pause"

ClickResume ==
    /\ RecordingPanelShown /\ isPaused
    /\ resumeRecording
    /\ UNCHANGED download
    /\ last' = "resume"

ClickStop ==
    /\ RecordingPanelShown
    /\ stopRecording
    /\ UNCHANGED download
    /\ last' = "stop"

ClickCancel ==
    /\ RecordingPanelShown
    /\ cancelRecording
    /\ UNCHANGED download
    /\ last' = "cancel"

ClickPlay ==
    /\ StoppedPanelShown
    /\ playRecording
    /\ UNCHANGED download
    /\ last' = "play"

\* the audio element's ended event: setIsPlaying(false)
audioEnded ==
    /\ isPlaying /\ audioSrc # None
    /\ isPlaying' = FALSE
    /\ UNCHANGED << isRecording, isPaused, recordedBlob, recordingTime,
                    showRecorder >>
    /\ UNCHANGED << uploadState, recRefs, meter, dom, env >>
    /\ UNCHANGED download
    /\ last' = "ended"

ClickUseRecording ==
    /\ StoppedPanelShown
    /\ useRecording
    /\ UNCHANGED download
    /\ last' = "use"

ClickRecordAgain ==
    /\ StoppedPanelShown
    /\ clearRecording
    /\ UNCHANGED download
    /\ last' = "clear"

\* the file input's change event: the browser has set its value
InputChange(f) ==
    /\ fileInputValue' = f.name
    /\ handleFileSelect(f)
    /\ UNCHANGED download
    /\ last' = IF Accepted(f) THEN "select" ELSE "select-rejected"

handleDrop(f) ==
    /\ handleFileSelect(f)
    /\ UNCHANGED fileInputValue
    /\ UNCHANGED download
    /\ last' = IF Accepted(f) THEN "select" ELSE "select-rejected"

ToggleOutput(field, checked) ==
    /\ CheckboxEnabled
    /\ outputSelection' = [outputSelection EXCEPT ![field] = checked]
    /\ UNCHANGED << file, isUploading, output, error >>
    /\ UNCHANGED << recState, recRefs, meter, dom, env >>
    /\ UNCHANGED download
    /\ last' = "toggle"

ClickGenerate ==
    /\ GenerateEnabled
    /\ handleUpload
    /\ UNCHANGED download
    /\ last' = "generate"

\* the type each Download button passes
DownloadType(field) ==
    IF field = "soapNote"
    THEN << "S", "O", "A", "P", "-", "N", "o", "t", "e" >>
    ELSE << "P", "a", "t", "i", "e", "n", "t", "-", "S", "u", "m", "m", "a",
            "r", "y" >>

\* a Download button of the output section, pressed on the given date
ClickDownload(field, date) ==
    /\ output # None
    /\ outputSelection[field]
    /\ downloadFile(DownloadType(field), date)
    /\ last' = "download"

ClickGenerateAnother ==
    /\ GenerateAnotherShown
    /\ generateAnother
    /\ UNCHANGED download
    /\ last' = "generate-another"

\* ------------------------------------------------------ specifications
\* Spec: the recording session together with the part of the submission
\* flow that reaches it (a file is dropped, submitted, answered, and the
\* form is reset).  The user drops one of DroppedFiles, the webhook
\* answers with one of SomeResponses, and every recording has data.
DroppedFiles ==
    { f \in Files : f.name \in { << "d", ".", "m", "d" >>,
                                << "e", ".", "p", "d", "f" >> } }

SomeResponses ==
    { r \in Responses :
        \/ r.kind = "network-error"
        \/ /\ r.kind = "ok"
           /\ r.contentType = Some(<< ApplicationJson >>)
           /\ r.json = "object"
           /\ r.body = [NoFields EXCEPT !["soap_note_text"] = << "text" >>,
                                        !["patient_summary_text"] = << "text" >>] }

Next ==
    \/ ClickInitialStart
    \/ StartTimeout
    \/ ClickSecondaryStart
    \/ startRecordingGranted
    \/ startRecordingDenied
    \/ \E t \in timers : tick(t)
    \/ \E l \in loops : updateAudioLevel(l)
    \/ ClickPause
    \/ ClickResume
    \/ ClickStop
    \/ ClickCancel
    \/ \E r \in 1..Len(recorders) : onstop(r, 1)
    \/ resetCancelling
    \/ ClickPlay
    \/ audioEnded
    \/ ClickUseRecording
    \/ ClickRecordAgain
    \/ \E f \in DroppedFiles : handleDrop(f)
    \/ ClickGenerate
    \/ \E resp \in SomeResponses : handleUploadSettled(resp)
    \/ ClickGenerateAnother

Spec == Init /\ [][Next]_vars

\* SpecRec: the recorder alone; no file is selected and nothing submitted
NextRec ==
    \/ ClickInitialStart
    \/ StartTimeout
    \/ ClickSecondaryStart
    \/ startRecordingGranted
    \/ startRecordingDenied
    \/ \E t \in timers : tick(t)
    \/ \E l \in loops : updateAudioLevel(l)
    \/ ClickPause
    \/ ClickResume
    \/ ClickStop
    \/ ClickCancel
    \/ \E r \in 1..Len(recorders), size \in 0..1 : onstop(r, size)
    \/ resetCancelling
    \/ ClickPlay
    \/ audioEnded
    \/ ClickUseRecording
    \/ ClickRecordAgain

SpecRec == Init /\ [][NextRec]_vars

\* SpecCalls: one recording after the other (a Start Recording button is
\* pressed only when no earlier start is waiting for its timeout or for the
\* device), with pauseRecording, resumeRecording and useRecording also
\* called in the states in which their buttons are not shown
CallPause ==
    /\ pauseRecording
    /\ UNCHANGED download
    /\ last' = "call-pause"

CallResume ==
    /\ resumeRecording
    /\ UNCHANGED download
    /\ last' = "call-resume"

CallUseRecording ==
    /\ useRecording
    /\ UNCHANGED download
    /\ last' = "call-use"

NextCalls ==
    \/ (startTimeouts + gumPending = 0 /\ ClickInitialStart)
    \/ StartTimeout
    \/ (startTimeouts + gumPending = 0 /\ ClickSecondaryStart)
    \/ startRecordingGranted
    \/ startRecordingDenied
    \/ \E t \in timers : tick(t)
    \/ \E l \in loops : updateAudioLevel(l)
    \/ CallPause
    \/ CallResume
    \/ ClickStop
    \/ ClickCancel
    \/ \E r \in 1..Len(recorders), size \in 0..1 : onstop(r, size)
    \/ resetCancelling
    \/ ClickPlay
    \/ audioEnded
    \/ CallUseRecording
    \/ ClickRecordAgain

SpecCalls == Init /\ [][NextCalls]_vars

\* SpecUpload: file selection and submission alone, with every file of
\* Files and every response of Responses; the recorder is never opened
NextUpload ==
    \/ \E f \in Files : InputChange(f)
    \/ \E f \in Files : handleDrop(f)
    \/ \E field \in {"soapNote", "patientSummary"}, checked \in BOOLEAN :
           ToggleOutput(field, checked)
    \/ ClickGenerate
    \/ \E resp \in Responses : handleUploadSettled(resp)
    \/ ClickGenerateAnother

SpecUpload == Init /\ [][NextUpload]_vars

\* SpecFiles: the form before a submission, with more files to choose from:
\* the two other audio extensions, an upper-case extension, a type that is
\* almost audio/
AllFiles ==
    Files \cup
    { [name |-> << "f" >> \o DotM4a, type |-> << >>],
      [name |-> << "g" >> \o DotWav, type |-> << >>],
      [name |-> << "h", ".", "T", "X", "T" >>, type |-> << >>],
      [name |-> << "i", ".", "o", "g", "g" >>,
       type |-> << "a", "u", "d", "i", "o" >>],
      [name |-> DotMp3 \o << "x" >>,
       type |-> << "v", "i", "d", "e", "o", "/", "x" >>] }

NextFiles ==
    \/ \E f \in AllFiles : InputChange(f)
    \/ \E f \in AllFiles : handleDrop(f)
    \/ \E field \in {"soapNote", "patientSummary"}, checked \in BOOLEAN :
           ToggleOutput(field, checked)

SpecFiles == Init /\ [][NextFiles]_vars

\* SpecDownload: files with other shapes of name (no extension, two
\* extensions, only an extension, a dot at the end), one submission after
\* the other, and the Download buttons
DownloadFiles ==
    AllFiles \cup
    { [name |-> DotTxt, type |-> << >>],
      [name |-> << "a", ".", "b" >> \o DotTxt, type |-> << >>],
      [name |-> << "j", "." >>, type |-> AudioWav] }

NextDownload ==
    \/ \E f \in DownloadFiles : InputChange(f)
    \/ \E f \in DroppedFiles : handleDrop(f)
    \/ ClickGenerate
    \/ \E resp \in SomeResponses : handleUploadSettled(resp)
    \/ \E field \in {"soapNote", "patientSummary"}, date \in Dates :
           ClickDownload(field, date)
    \/ ClickGenerateAnother

SpecDownload == Init /\ [][NextDownload]_vars

\* SpecSingle: every action of the page, in the runs in which getUserMedia
\* grants the microphone once
NextSingle ==
    \/ ClickInitialStart
    \/ StartTimeout
    \/ ClickSecondaryStart
    \/ streams = << >> /\ startRecordingGranted
    \/ startRecordingDenied
    \/ \E t \in timers : tick(t)
    \/ \E l \in loops : updateAudioLevel(l)
    \/ ClickPause
    \/ ClickResume
    \/ ClickStop
    \/ ClickCancel
    \/ \E r \in 1..Len(recorders), size \in 0..1 : onstop(r, size)
    \/ resetCancelling
    \/ ClickPlay
    \/ audioEnded
    \/ ClickUseRecording
    \/ ClickRecordAgain
    \/ \E f \in DroppedFiles : InputChange(f)
    \/ \E f \in DroppedFiles : handleDrop(f)
    \/ \E field \in {"soapNote", "patientSummary"}, checked \in BOOLEAN :
           ToggleOutput(field, checked)
    \/ ClickGenerate
    \/ \E resp \in SomeResponses : handleUploadSettled(resp)
    \/ ClickGenerateAnother

SpecSingle == Init /\ [][NextSingle]_vars


\* ==================================================================
\* Properties
\* ==================================================================

\* no task of the recorder is in flight: no start waits for its timeout or
\* for getUserMedia, and no recorder has its stop event still queued
Quiescent ==
    /\ startTimeouts = 0
    /\ gumPending = 0
    /\ \A r \in 1..Len(recorders) : ~recorders[r].stopQueued

\* C1: once the session is neither Recording nor Paused and nothing of the
\* recorder is pending, no acquired capture stream is still live.
C1_StreamsReleasedAfterExit ==
    (~isRecording /\ ~isPaused /\ Quiescent)
        => \A s \in 1..Len(streams) : ~StreamLive(s)

\* C2: every acquired stream gets exactly one release call: never two, and
\* not zero once its recorder has stopped and the stop callback has run.
C2_ExactlyOneRelease ==
    \A s \in 1..Len(streams) :
        /\ streams[s] <= 1
        /\ (~RecorderActive(s) /\ ~recorders[s].stopQueued) => streams[s] = 1

\* C3: a recording that cancelRecording stopped has its stream released,
\* and once its stop callback has run recordedBlob is not its audio: the
\* cancelling flag made the callback skip the blob.
C3_CancelLeavesNoAudio ==
    \A r \in 1..Len(recorders) :
        recorders[r].stoppedBy = "cancel"
            => /\ ~StreamLive(r)
               /\ recordedBlob = None \/ recordedBlob[1].rec # r

\* C4: whenever isRecording is false, no tick interval and no metering
\* frame is scheduled.
C4_NoTimerOutsideRecording ==
    ~isRecording => (timers = {} /\ loops = {})

\* C5: right after Generate Another Note, the recording and output state
\* have their initial defaults and the file input is empty.
C5_ResetRestoresDefaults ==
    last = "generate-another"
        => /\ file = None /\ output = None /\ error = None
           /\ outputSelection = [soapNote |-> TRUE, patientSummary |-> TRUE]
           /\ ~showRecorder /\ ~isRecording /\ ~isPaused /\ ~isPlaying
           /\ recordedBlob = None
           /\ recordingTime = 0
           /\ ~isCancellingRef
           /\ fileInputValue = << >>

\* the reset was made in the middle of a recording: its tick timer is
\* still there
C5_Witness ==
    /\ last = "generate-another"
    /\ timers # {}
    /\ recordingTime = 0

\* C6: while the session stays Paused the elapsed time does not change,
\* resume leaves it as it was, and after resume exactly one tick timer is
\* scheduled and metering runs.
C6_PauseResumeContinuity ==
    [][ /\ (isRecording /\ isPaused /\ isRecording' /\ isPaused')
            => recordingTime' = recordingTime
        /\ last' = "resume"
            => /\ recordingTime' = recordingTime
               /\ Cardinality(timers') = 1
               /\ animationRef' \in loops'
      ]_vars

\* the accepted set as the specification lists it: the four extensions
\* and the audio/ types
ListedAsAccepted(f) ==
    \/ EndsWith(f.name, DotTxt)
    \/ EndsWith(f.name, DotMp3)
    \/ EndsWith(f.name, DotM4a)
    \/ EndsWith(f.name, DotWav)
    \/ StartsWith(f.type, AudioSlash)

\* a file is chosen with the picker or dropped
Select(f) == InputChange(f) \/ handleDrop(f)

\* C7 as stated: selecting a file outside the listed set sets the
\* unsupported-type error and leaves file as it was.
C7_RejectLeavesFile ==
    [][ \A f \in Files :
            (~ListedAsAccepted(f) /\ Select(f))
                => (error' = Some(FileTypeError) /\ file' = file) ]_vars

\* C7 amended: selecting a file outside the listed set whose type is not
\* text/plain either sets the unsupported-type error and clears file.
C7_RejectClearsFile ==
    [][ \A f \in Files :
            (~ListedAsAccepted(f) /\ f.type # TextPlain /\ Select(f))
                => (error' = Some(FileTypeError) /\ file' = None) ]_vars

\* a dropped file was rejected while the picker still shows a.txt, which had been
\* accepted
C7_Witness ==
    /\ last = "select-rejected"
    /\ fileInputValue = << "a" >> \o DotTxt
    /\ file = None
    /\ error = Some(FileTypeError)

\* C8: a submission that ends in a network failure, a bad status or a
\* non-JSON content type sets the submission error, and neither step of
\* handleUpload writes output.
C8_FailureKeepsOutput ==
    [][ /\ last' \in {"network-error", "bad-status", "not-json"}
            => (error' = Some(UploadError) /\ output' = output)
        /\ last' = "generate" => output' = output
      ]_vars

\* a response of the wrong content type arrived while notes of an earlier
\* submission were shown
C8_Witness ==
    /\ last = "not-json"
    /\ output # None
    /\ error = Some(UploadError)

\* C9: a successful JSON response without either pair (null, a scalar, or
\* an object that lacks both) gives the placeholder pair and does not set
\* an error.
C9_PlaceholderNeverError ==
    [][ last' \in {"null", "scalar", "no-pair"}
            => /\ output' = Some(mockResponse(Head(fetches)))
               /\ error' = error ]_vars

\* C10: error is null after a valid file selection, after
\* use-this-recording, after the start of a submission (where handleUpload
\* clears the message), and after a start of recording that is granted
\* right after startRecording was called.
C10_SuccessClearsError ==
    [][ /\ last' \in {"select", "use", "generate"} => error' = None
        /\ (last \in {"start-timeout", "click-start-2"} /\ last' = "granted")
               => error' = None
      ]_vars

\* C11: at most one submission request is in flight; a request is sent
\* only from a state with a file and with isUploading false, and isUploading
\* is true for as long as a request is outstanding.
C11_OneRequestInFlight ==
    [][ /\ Len(fetches') <= 1
        /\ fetches' # << >> => isUploading'
        /\ Len(fetches') > Len(fetches) => (file # None /\ ~isUploading)
      ]_vars

\* Generate Another Note was pressed while a second submission was
\* outstanding: the file is gone, the request and isUploading remain
C11_Witness ==
    /\ Len(fetches) = 1
    /\ isUploading
    /\ file = None
    /\ last = "generate-another"

\* C12: stopRecording sets isRecording and isPaused false and cancels the
\* tick and the metering it holds; the stop callback of a recorder that
\* stopRecording stopped puts one audio object made of all the recorder's
\* chunks in recordedBlob and releases the recorder's stream.
C12_StopYieldsRecording ==
    [][ /\ last' = "stop"
            => /\ ~isRecording' /\ ~isPaused'
               /\ intervalRef' \notin timers'
               /\ animationRef' = NoId
        /\ \A r \in 1..Len(recorders) :
               ( /\ last' = "onstop"
                 /\ recorders[r].stoppedBy = "stop"
                 /\ recorders[r].stopQueued
                 /\ ~recorders'[r].stopQueued )
                   => /\ recordedBlob' =
                            Some([rec |-> r, chunks |-> recorders'[r].chunks])
                      /\ streams'[r] > 0
      ]_vars

\* C13: the step of startRecording that follows a granted device leaves
\* isRecording true, recordingTime 0, a new tick timer scheduled and the
\* metering loop running; every tick adds exactly 1 to recordingTime.
C13_GrantedEntersRecording ==
    [][ /\ last' = "granted"
            => /\ isRecording'
               /\ recordingTime' = 0
               /\ intervalRef' \in timers' \ timers
               /\ animationRef' \in loops'
        /\ last' = "tick" => recordingTime' = recordingTime + 1
      ]_vars

\* a second recording has just started
C13_Witness ==
    /\ last = "granted"
    /\ Len(streams) = 2
    /\ isRecording
    /\ recordingTime = 0
    /\ intervalRef \in timers

\* C14: the step of startRecording that follows a refused device sets the
\* microphone error and changes nothing of the recording: isRecording and
\* recordingTime are as before, and no timer, metering loop, stream or
\* recorder is added.
C14_DeniedStaysOut ==
    [][ last' = "denied"
            => /\ error' = Some(MicError)
               /\ isRecording' = isRecording
               /\ recordingTime' = recordingTime
               /\ UNCHANGED << timers, loops, streams, recorders >>
               /\ UNCHANGED << intervalRef, animationRef, streamRef,
                               mediaRecorderRef >>
      ]_vars

\* the device was refused on the first start
C14_Witness ==
    /\ last = "denied"
    /\ error = Some(MicError)
    /\ ~isRecording
    /\ timers = {} /\ loops = {} /\ streams = << >>

\* C15: pauseRecording called when the session is not Recording-and-not-
\* paused, and resumeRecording called when it is not Paused, change nothing.
C15_GuardedNoOp ==
    [][ /\ (last' = "call-pause" /\ ~(isRecording /\ ~isPaused))
            => UNCHANGED << uploadState, recState, recRefs, meter, dom, env >>
        /\ (last' = "call-resume" /\ ~(isRecording /\ isPaused))
            => UNCHANGED << uploadState, recState, recRefs, meter, dom, env >>
      ]_vars

\* resumeRecording was called in the middle of a running recording
C15_Witness ==
    /\ last = "call-resume"
    /\ isRecording /\ ~isPaused
    /\ Cardinality(timers) = 1
    /\ recordingTime = 1

\* C16: in every Paused state no tick timer is scheduled, metering is
\* stopped with audioLevel 0, and the stream of the recording is open.
C16_PausedIsQuiet ==
    (isRecording /\ isPaused)
        => /\ timers = {}
           /\ loops = {} /\ audioLevel = 0
           /\ streamRef # NoId /\ StreamLive(streamRef)

\* C17: cancelRecording from Recording or Paused leaves showRecorder as it
\* was (true), isRecording, isPaused and isPlaying false, recordingTime 0
\* and recordedBlob null.
C17_CancelResets ==
    [][ last' = "cancel"
            => /\ showRecorder' = showRecorder /\ showRecorder'
               /\ ~isRecording' /\ ~isPaused' /\ ~isPlaying'
               /\ recordingTime' = 0
               /\ recordedBlob' = None
      ]_vars

\* a recording was cancelled and its stop event is still queued
C17_Witness ==
    /\ last = "cancel"
    /\ \E r \in 1..Len(recorders) :
           /\ recorders[r].state = "inactive"
           /\ recorders[r].stoppedBy = "cancel"
           /\ recorders[r].stopQueued
    /\ recordingTime = 0
    /\ showRecorder

\* C18: clearRecording from Stopped leaves recordedBlob null, recordingTime
\* 0, isPlaying and isPaused false and showRecorder as it was; the session
\* is where cancel leaves it: the recorder shown, not recording, nothing
\* recorded.
C18_ClearResets ==
    [][ last' = "clear"
            => /\ recordedBlob' = None
               /\ recordingTime' = 0
               /\ ~isPlaying' /\ ~isPaused'
               /\ showRecorder' = showRecorder
               /\ SecondaryStartShown'
      ]_vars

\* Record Again was pressed on a finished recording
C18_Witness ==
    /\ last = "clear"
    /\ recordedBlob = None
    /\ \E r \in 1..Len(recorders) :
           recorders[r].stoppedBy = "stop" /\ ~recorders[r].stopQueued
    /\ SecondaryStartShown

\* C19: useRecording with a recordedBlob makes file an audio/wav file of
\* that blob, hides the recorder and clears error; with no recordedBlob it
\* changes nothing.
C19_UseRecording ==
    [][ last' = "call-use"
            => IF recordedBlob # None
               THEN /\ file' # None
                    /\ file'[1].data = recordedBlob[1]
                    /\ file'[1].type = AudioWav
                    /\ ~showRecorder'
                    /\ error' = None
               ELSE UNCHANGED << uploadState, recState, recRefs, meter, dom,
                                 env >>
      ]_vars

\* the second recording replaced the first as the file
C19_Witness ==
    /\ last = "call-use"
    /\ file # None
    /\ file[1].data.rec = 2
    /\ ~showRecorder

\* C20 as stated: a selected file becomes the file, with error cleared, if
\* and only if it is in the listed set; any other file gets the
\* unsupported-type error.
C20_AcceptsListedOnly ==
    [][ \A f \in AllFiles :
            Select(f)
                => IF ListedAsAccepted(f)
                   THEN file' = Some(f) /\ error' = None
                   ELSE error' = Some(FileTypeError) /\ file' # Some(f)
      ]_vars

\* C20 amended: the accepted files are those of the listed set and those
\* of type text/plain.
C20_AcceptsListedOrTextPlain ==
    [][ \A f \in AllFiles :
            Select(f)
                => IF ListedAsAccepted(f) \/ f.type = TextPlain
                   THEN file' = Some(f) /\ error' = None
                   ELSE error' = Some(FileTypeError) /\ file' # Some(f)
      ]_vars

\* an .m4a file without a type was accepted after a rejected file
C20_Witness ==
    /\ last = "select"
    /\ file = Some([name |-> << "f" >> \o DotM4a, type |-> << >>])
    /\ error = None

\* a successful JSON response whose body is an object
JsonObjectResponse(resp) ==
    /\ resp.kind = "ok"
    /\ resp.contentType \in JsonContentTypes
    /\ resp.json = "object"

\* both fields of a pair are in the body, empty or not
PairPresent(resp, a, b) ==
    /\ JsonObjectResponse(resp)
    /\ resp.body[a] # Undefined
    /\ resp.body[b] # Undefined

\* the pair of the new convention and of the legacy convention, as output
NewPair ==
    [soapNote |-> Text("soap_note_text"),
     patientSummary |-> Text("patient_summary_text")]

LegacyPair ==
    [soapNote |-> Text("soapNote"), patientSummary |-> Text("patientSummary")]

\* C21 as stated: when the two fields of the new convention are present,
\* output is exactly that pair; otherwise when the two legacy fields are
\* present, output is exactly that pair.
C21_PresentPairIsOutput ==
    [][ \A resp \in Responses :
          /\ ( /\ PairPresent(resp, "soap_note_text", "patient_summary_text")
               /\ handleUploadSettled(resp) )
                => output' =
                     Some([soapNote |-> Field(resp.body, "soap_note_text"),
                           patientSummary |->
                               Field(resp.body, "patient_summary_text")])
          /\ ( /\ ~PairPresent(resp, "soap_note_text", "patient_summary_text")
               /\ PairPresent(resp, "soapNote", "patientSummary")
               /\ handleUploadSettled(resp) )
                => output' =
                     Some([soapNote |-> Field(resp.body, "soapNote"),
                           patientSummary |->
                               Field(resp.body, "patientSummary")])
      ]_vars

\* C21 amended: when the two fields of the new convention are non-empty,
\* output is exactly that pair; otherwise when the two legacy fields are
\* non-empty, output is exactly that pair; in neither case is it the
\* placeholder pair.
C21_NonEmptyPairIsOutput ==
    [][ /\ last' \in {"both-pairs", "new-pair"} => output' = Some(NewPair)
        /\ last' = "legacy-pair" => output' = Some(LegacyPair)
        /\ last' \in {"both-pairs", "new-pair", "legacy-pair"}
               => output' # Some(mockResponse(Head(fetches)))
      ]_vars

\* a response with both pairs gave the pair of the new convention
C21_Witness ==
    /\ last = "both-pairs"
    /\ output = Some(NewPair)
    /\ error = None

\* the name without its final extension: what precedes the last dot, when
\* something other than a path separator follows that dot
FinalExtensionRemoved(name) ==
    LET dots == { i \in 1..Len(name) : name[i] = "." }
    IN  IF dots = {} THEN name
        ELSE LET lastDot == CHOOSE i \in dots : \A j \in dots : j <= i
             IN  IF lastDot = Len(name)
                       \/ \E j \in lastDot..Len(name) : name[j] = "/"
                 THEN name
                 ELSE SubSeq(name, 1, lastDot - 1)

\* the value of the decimal numeral s
RECURSIVE NumeralValue(_)
NumeralValue(s) ==
    IF s = << >> THEN 0
    ELSE 10 * NumeralValue(SubSeq(s, 1, Len(s) - 1))
             + (CHOOSE n \in 0..9 : Digits[n + 1] = s[Len(s)])

\* s is the date written YYYY-MM-DD
IsISODate(s, date) ==
    /\ Len(s) = 10
    /\ \A i \in 1..10 : IF i \in {5, 8} THEN s[i] = "-"
                                        ELSE \E n \in 0..9 : Digits[n + 1] = s[i]
    /\ NumeralValue(SubSeq(s, 1, 4)) = date.year
    /\ NumeralValue(SubSeq(s, 6, 7)) = date.month
    /\ NumeralValue(SubSeq(s, 9, 10)) = date.day

\* C22: the name downloadFile gives to the download is
\* <basename>_<type>_<YYYY-MM-DD>.txt, with the file's name without its
\* final extension as basename, or patient-visit when there is no file.
C22_DownloadName ==
    [][ \A field \in {"soapNote", "patientSummary"}, date \in Dates :
            ClickDownload(field, date)
                => LET base == IF file = None THEN PatientVisit
                               ELSE FinalExtensionRemoved(file[1].name)
                       type == DownloadType(field)
                       name == download'[1]
                       datePart == SubSeq(name, Len(base) + Len(type) + 3,
                                          Len(name) - 4)
                   IN  /\ download' # None
                       /\ Len(name) = Len(base) + Len(type) + 16
                       /\ SubSeq(name, 1, Len(base)) = base
                       /\ name[Len(base) + 1] = "_"
                       /\ SubSeq(name, Len(base) + 2,
                                 Len(base) + Len(type) + 1) = type
                       /\ name[Len(base) + Len(type) + 2] = "_"
                       /\ IsISODate(datePart, date)
                       /\ SubSeq(name, Len(name) - 3, Len(name)) = DotTxt
      ]_vars

\* the summary made from a.b.txt was downloaded on 31 December 1999
C22_Witness ==
    /\ last = "download"
    /\ file = Some([name |-> << "a", ".", "b" >> \o DotTxt, type |-> << >>])
    /\ download = Some(<< "a", ".", "b", "_" >>
                         \o DownloadType("patientSummary")
                         \o << "_", "1", "9", "9", "9", "-", "1", "2", "-",
                               "3", "1" >> \o DotTxt)

\* paused-while-not-recording is no reachable combination: only
\* pauseRecording sets isPaused, under isRecording, and every handler that
\* sets isRecording false sets isPaused false with it
PausedImpliesRecording ==
    isPaused => isRecording

\* C24: at most one capture stream is live, at most one recorder is
\* recording or paused, and at most one tick timer is scheduled.
C24_OneSessionAtATime ==
    /\ Cardinality({ s \in 1..Len(streams) : StreamLive(s) }) <= 1
    /\ Cardinality({ r \in 1..Len(recorders) : RecorderActive(r) }) <= 1
    /\ Cardinality(timers) <= 1

\* the values of last that stand for a settled submission
SettledClasses ==
    { "network-error", "bad-status", "not-json", "invalid", "null", "scalar",
      "both-pairs", "new-pair", "legacy-pair", "no-pair" }

\* C25: a response that arrives right after the Generate Another Note
\* reset, so of a submission started before it, sets neither output nor
\* error: both stay null.
C25_StaleResponseIgnored ==
    [][ (last = "generate-another" /\ last' \in SettledClasses)
            => (output' = None /\ error' = None) ]_vars

\* C26: the stop callback of a recorder that stopRecording stopped, run
\* after the stop callback of an earlier, cancelled recorder, puts the
\* audio of its own recorder in recordedBlob.
C26_FlagOnlyForCancelled ==
    [][ \A r \in 1..Len(recorders) :
            ( /\ last' = "onstop"
              /\ recorders[r].stopQueued /\ ~recorders'[r].stopQueued
              /\ recorders[r].stoppedBy = "stop"
              /\ \E c \in 1..(r - 1) :
                     /\ recorders[c].stoppedBy = "cancel"
                     /\ ~recorders[c].stopQueued )
                => /\ recordedBlob' # None
                   /\ recordedBlob'[1].rec = r
      ]_vars

\* C27: recordingTime changes only by a tick that adds 1 while the session
\* is Recording and not Paused, or by a reset to 0 in start, cancel, clear
\* or Generate Another Note.
C27_TimeChangesOnlyWhileRecording ==
    [][ recordingTime' # recordingTime
            => \/ /\ last' = "tick"
                  /\ isRecording /\ ~isPaused
                  /\ recordingTime' = recordingTime + 1
               \/ /\ last' \in {"granted", "cancel", "clear",
                                "generate-another"}
                  /\ recordingTime' = 0
      ]_vars

\* C28: the steps of start, pause, resume, stop, cancel and clear leave
\* file, output, isUploading and outputSelection as they were; file
\* selection and the two steps of a submission leave isRecording, isPaused,
\* recordedBlob, recordingTime and showRecorder as they were.
C28_RecorderAndUploadApart ==
    [][ /\ last' \in {"click-start", "start-timeout", "click-start-2",
                      "granted", "denied", "pause", "resume", "stop",
                      "onstop", "cancel", "clear"}
            => UNCHANGED << file, output, isUploading, outputSelection >>
        /\ last' \in {"select", "select-rejected", "generate"}
                         \cup SettledClasses
            => UNCHANGED << isRecording, isPaused, recordedBlob,
                            recordingTime, showRecorder >>
      ]_vars

\* a file was dropped in the middle of a paused recording
C28_Witness ==
    /\ last = "select"
    /\ file # None
    /\ isRecording /\ isPaused
    /\ showRecorder

\* C29: the step that completes a submission leaves isUploading false; it
\* leaves error non-null when the submission failed (no response, a bad
\* status, a content type other than JSON, a body that is not JSON) and
\* null when it gave one of the pairs or the placeholder.
C29_CompletionSetsError ==
    [][ /\ last' \in SettledClasses => ~isUploading'
        /\ last' \in {"network-error", "bad-status", "not-json", "invalid"}
               => error' # None
        /\ last' \in {"both-pairs", "new-pair", "legacy-pair", "no-pair",
                      "scalar"}
               => error' = None
      ]_vars

\* where a text of output comes from: a field of the new convention, a
\* field of the legacy convention, or the canned pair
SourceOf(t) ==
    IF t \in {Text("soap_note_text"), Text("patient_summary_text")} THEN "new"
    ELSE IF t \in {Text("soapNote"), Text("patientSummary")} THEN "legacy"
    ELSE IF t # EmptyString /\ t # Undefined
            /\ t[1] \in {"SOAP Note - ", "Your Dental Visit Summary ..."}
         THEN "placeholder"
    ELSE "none"

\* C30: in every reachable state output is null or a pair whose two texts
\* are both non-empty and both from the same source: both of the new
\* convention, both legacy, or both placeholders.
C30_OutputFromOneSource ==
    output = None
    \/ /\ Truthy(output[1].soapNote)
       /\ Truthy(output[1].patientSummary)
       /\ SourceOf(output[1].soapNote) # "none"
       /\ SourceOf(output[1].soapNote) = SourceOf(output[1].patientSummary)

\* a response with the legacy pair and the summary of the new convention
\* only has put the legacy pair in output
C30_Witness ==
    /\ last = "legacy-pair"
    /\ output # None
    /\ SourceOf(output[1].soapNote) = "legacy"
    /\ SourceOf(output[1].patientSummary) = "legacy"

====
